---- MODULE Spec2Model ----
(***************************************************************************)
(* nodeEventStore: lib/eventStore.js (Store, EventStream, Event, Snapshot) *)
(* and lib/storage/inMemory/storage.js (the reference Storage).            *)
(*                                                                         *)
(* JavaScript objects are shared by reference: the Event objects of an     *)
(* EventStream are the very objects the in-memory Storage keeps and the    *)
(* Dispatcher queues.  The model keeps them in a heap and every list holds *)
(* heap addresses.                                                         *)
(*                                                                         *)
(* async.waterfall runs each task in a later tick, so an operation built   *)
(* on it is a sequence of steps that interleave with other operations.     *)
(***************************************************************************)
EXTENDS Integers, Sequences, FiniteSets, TLC

\* ------------------------------------------------------------------ bounds
MaxEvents == 2      \* Event objects ever created by addEvent
MaxIds    == 3      \* ids ever handed out by Storage.getId
MaxSnaps  == 2      \* snapshots per stream
MaxRev    == 1      \* largest revision argument a caller passes

Stores   == {1, 2}          \* Store instances
Storages == {1, 2}          \* Storage instances (k is the default one of Store k)
Slots    == {1, 2}          \* caller variables that hold an EventStream
Streams  == {"A", "B"}      \* stream ids
Payloads == {0, 1}          \* caller payloads (0 is a falsy JavaScript value)

\* ------------------------------------------------------------ JS constants
None      == 0      \* `undefined` for an unset object reference
Null      == -1     \* `null`
Undefined == -2     \* `undefined` for a missing property

Min(a, b) == IF a < b THEN a ELSE b
Range(s)  == {s[k] : k \in 1..Len(s)}

VARIABLES
    storage,      \* Store.storage: the bound Storage, or None
    dispatcher,   \* Store.dispatcher is defined (start() has run)
    queue,        \* the Dispatcher's undispatched queue of each Store
    self,         \* the global `self` that Store.commit assigns
    heap,         \* the Event objects, by address
    store,        \* Storage.store: streamId -> list of Event addresses
    storeKeys,    \* insertion order of the keys of Storage.store
    snapshots,    \* Storage.snapshots: streamId -> list of Snapshots
    scope,        \* what exists: the Store instances, the stream ids and
                  \* payloads callers use, the Storage implementation plugged in
    ids,          \* number of ids Storage.getId has handed out
    clock,        \* the wall clock
    es,           \* the EventStream each caller slot holds
    op,           \* the operation in flight for each caller slot
    cb,           \* invocations of the caller's callback for that operation
    last,         \* history: what the latest step did
    track         \* history: how each caller's EventStream stands in the protocol

vars == <<storage, dispatcher, queue, self, heap, store, storeKeys, snapshots,
          scope, ids, clock, es, op, cb, last, track>>

\* ---------------------------------------------------------------- objects
\* eventStore.js:434 Event
Event(streamId, event) ==
    [streamId       |-> streamId,
     streamRevision |-> Null,
     commitId       |-> Null,
     commitSequence |-> Null,
     commitStamp    |-> Null,
     header         |-> Null,
     dispatched     |-> FALSE,
     payload        |-> IF event = 0 THEN Null ELSE event]

\* eventStore.js:447 Snapshot
Snapshot(id, streamId, revision, data) ==
    [id |-> id, streamId |-> streamId, revision |-> revision, data |-> data]

\* the `{}` that Storage.getSnapshot answers for a stream without snapshots
EmptyObject ==
    [id |-> Undefined, streamId |-> "undefined", revision |-> Undefined,
     data |-> Undefined]

\* eventStore.js:389 EventStream
EventStream(s, streamId, events) ==
    [loaded            |-> TRUE,
     store             |-> s,
     streamId          |-> streamId,
     events            |-> events,
     uncommittedEvents |-> <<>>,
     lastRevision      |-> -1]

NoStream ==
    [loaded |-> FALSE, store |-> None, streamId |-> "undefined", events |-> <<>>,
     uncommittedEvents |-> <<>>, lastRevision |-> -1]

Idle == [pc |-> "idle"]

\* a step whose history no property reads
NoStep == [act |-> "none"]

\* ------------------------------------------------------- EventStream code
RECURSIVE MaxRevision(_, _)
MaxRevision(events, rev) ==
    IF events = <<>> THEN rev
    ELSE MaxRevision(Tail(events),
                     IF heap[Head(events)].streamRevision > rev
                     THEN heap[Head(events)].streamRevision ELSE rev)

\* a currentRevision that asks the Storage for the tail of the stream
currentRevisionOfLog(stream) ==
    Len(store[storage[stream.store]][stream.streamId]) - 1

\* eventStore.js:400 EventStream.prototype.currentRevision
currentRevision(stream) == MaxRevision(stream.events, stream.lastRevision)

\* ----------------------------------------------------------- Storage code
\* Array.prototype.slice(begin) and slice(begin, end) for begin, end >= 0
Slice(list, begin, end) == SubSeq(list, begin + 1, Min(end, Len(list)))

\* storage.js:65 Storage.prototype.getEvents
getEvents(log, minRev, maxRev) ==
    IF maxRev = -1 THEN Slice(log, minRev, Len(log))
    ELSE Slice(log, minRev, maxRev)

\* an addEvents that puts the batch in front of the list
addEventsInFront(log, events) ==
    IF events = <<>> THEN log ELSE events \o log

\* storage.js:40 Storage.prototype.addEvents: the new list of the stream
addEvents(log, events) ==
    IF events = <<>> THEN log ELSE log \o events

RECURSIVE LastQualifying(_, _)
LastQualifying(snaps, maxRev) ==
    IF snaps = <<>> THEN <<>>
    ELSE IF snaps[Len(snaps)].revision <= maxRev THEN <<snaps[Len(snaps)]>>
    ELSE LastQualifying(SubSeq(snaps, 1, Len(snaps) - 1), maxRev)

\* a getSnapshot that answers the oldest snapshot when maxRev is -1
getSnapshotOldest(snaps, maxRev) ==
    IF snaps = <<>> THEN <<EmptyObject>>
    ELSE IF maxRev = -1 THEN <<snaps[1]>>
    ELSE LastQualifying(snaps, maxRev)

\* storage.js:121 Storage.prototype.getSnapshot: the values its callback is
\* invoked with, in order (no value: the callback is not invoked)
getSnapshot(snaps, maxRev) ==
    IF snaps = <<>> THEN <<EmptyObject>>
    ELSE IF maxRev = -1 THEN <<snaps[Len(snaps)]>>
    ELSE LastQualifying(snaps, maxRev)

RECURSIVE Undispatched(_)
Undispatched(log) ==
    IF log = <<>> THEN <<>>
    ELSE (IF heap[Head(log)].dispatched = FALSE THEN <<Head(log)>> ELSE <<>>)
         \o Undispatched(Tail(log))

RECURSIVE UndispatchedOf(_, _)
UndispatchedOf(st, keys) ==
    IF keys = <<>> THEN <<>>
    ELSE Undispatched(store[st][Head(keys)]) \o UndispatchedOf(st, Tail(keys))

\* storage.js:147 Storage.prototype.getUndispatchedEvents
getUndispatchedEvents(st) == UndispatchedOf(st, storeKeys[st])

\* storage.js:163 Storage.prototype.setEventToDispatched
setEventToDispatched(h, evt) == [h EXCEPT ![evt].dispatched = TRUE]

\* the outcomes of a Storage.addEvents call: the reference Storage always
\* succeeds before it returns; a plugged-in backend may fail, or answer later
AddEventsOutcomes ==
    IF scope.backend = "inMemory" THEN {"ok"} ELSE {"ok", "fail", "later"}

\* the outcomes of a Storage.getEvents call: the reference Storage always
\* succeeds; a plugged-in backend may answer an error
GetEventsOutcomes ==
    IF scope.backend = "inMemory" THEN {"ok"} ELSE {"ok", "fail"}

\* ------------------------------------------------------------- Store code
\* one invocation of a caller's callback
Result(err, snapshot) == [err |-> err, snapshot |-> snapshot]

\* eventStore.js:136 Store.prototype.hasConfigurationErrors
hasConfigurationErrors(s) == storage[s] = None

\* The final callback of async.waterfall is invoked for the second time:
\* depending on the async release it reaches the caller again or is dropped.
Deliver(calls, r) ==
    IF calls = <<>> THEN {<<r>>} ELSE {Append(calls, r), calls}

\* a loop that numbers the events of a commit from 1
SealEventFromOne(e, id, i, stamp, revision) ==
    [e EXCEPT !.commitId = id,
              !.commitSequence = i + 1,
              !.commitStamp = stamp,
              !.streamRevision = revision]

\* eventStore.js:296-303: the loop of commitEvents over uncommittedEvents
SealEvent(e, id, i, stamp, revision) ==
    [e EXCEPT !.commitId = id,
              !.commitSequence = i,
              !.commitStamp = stamp,
              !.streamRevision = revision]

IndexOf(list, a) == CHOOSE k \in 1..Len(list) : list[k] = a

Seal(h, batch, id, currentRev, stamps) ==
    [a \in DOMAIN h |->
        IF a \in Range(batch)
        THEN SealEvent(h[a], id, IndexOf(batch, a) - 1, stamps[IndexOf(batch, a)],
                       currentRev + IndexOf(batch, a))
        ELSE h[a]]

\* the readings of `new Date()` during the loop: the clock never goes back
Readings(n) ==
    {r \in [1..n -> clock..scope.clock] : \A k \in 1..(n - 1) : r[k] <= r[k + 1]}

\* the keys of Storage.store after addEvents(events)
KeysAfter(keys, streamId, events) ==
    IF events = <<>> \/ streamId \in Range(keys) THEN keys
    ELSE Append(keys, streamId)

\* ------------------------------------------------------------------- Init
InitWith(sc) ==
    /\ scope = sc
    /\ storage = [s \in Stores |-> None]
    /\ dispatcher = [s \in Stores |-> FALSE]
    /\ queue = [s \in Stores |-> <<>>]
    /\ self = None
    /\ heap = <<>>
    /\ store = [st \in Storages |-> [x \in Streams |-> <<>>]]
    /\ storeKeys = [st \in Storages |-> <<>>]
    /\ snapshots = [st \in Storages |-> [x \in Streams |-> <<>>]]
    /\ ids = 0
    /\ clock = 0
    /\ es = [i \in Slots |-> NoStream]
    /\ op = [i \in Slots |-> Idle]
    /\ cb = [i \in Slots |-> <<>>]
    /\ last = NoStep
    /\ track = [fresh     |-> [i \in Slots |-> FALSE],
                committed |-> [i \in Slots |-> FALSE],
                raced     |-> [i \in Slots |-> FALSE],
                snap      |-> [i \in Slots |-> FALSE],
                off       |-> {},
                given     |-> <<>>]

Scope(ss, is, xs, ps, b, n, m, t) ==
    [stores |-> ss, slots |-> is, streams |-> xs, payloads |-> ps, backend |-> b,
     events |-> n, ids |-> m, clock |-> t]

\* ---------------------------------------------------------------- history
\* `track` is history only; no action reads it.
\*   fresh[i]:     slot i holds an EventStream loaded by getEventStream(x, 0, -1)
\*                 and no other EventStream has committed to its stream since
\*   committed[i]: the EventStream of slot i has run commitEvents since its load
\*   raced[i]:     while slot i was fresh and uncommitted, another fresh and
\*                 uncommitted EventStream of the same stream committed events
\*   snap[i]:      slot i holds an EventStream loaded by getFromSnapshot(x, -1)
\*   off:          the (Storage, stream) pairs that saw a commit from an
\*                 EventStream that was not fresh
\*   given:        the payload that addEvent was called with, by Event address
Loaded(i, call, revMin, revMax) ==
    [track EXCEPT !.fresh[i] = (call = "getEventStream" /\ revMin = 0 /\ revMax = -1),
                  !.committed[i] = FALSE,
                  !.raced[i] = FALSE,
                  !.snap[i] = (call = "getFromSnapshot" /\ revMax = -1)]

SameLog(j, st, streamId) ==
    /\ es[j].loaded
    /\ es[j].streamId = streamId
    /\ storage[es[j].store] = st

Committed(i, st, streamId, batch) ==
    [fresh     |-> [j \in Slots |->
                       IF j # i /\ SameLog(j, st, streamId) THEN FALSE
                       ELSE track.fresh[j]],
     committed |-> [track.committed EXCEPT ![i] = TRUE],
     raced     |-> [j \in Slots |->
                       IF j # i /\ SameLog(j, st, streamId)
                       THEN \/ track.raced[j]
                            \/ /\ track.fresh[j] /\ ~track.committed[j]
                               /\ track.fresh[i] /\ ~track.committed[i]
                               /\ batch # <<>>
                       ELSE track.raced[j]],
     snap      |-> track.snap,
     off       |-> IF track.fresh[i] THEN track.off
                   ELSE track.off \cup {<<st, streamId>>},
     given     |-> track.given]

\* ---------------------------------------------------------------- actions
\* eventStore.js:106 Store.prototype.use with a Storage module
Use(s, st) ==
    /\ s \in scope.stores /\ st \in scope.stores
    /\ storage[s] = None
    /\ st = s \/ storage[st] = st
    /\ storage' = [storage EXCEPT ![s] = st]
    /\ last' = NoStep
    /\ UNCHANGED <<dispatcher, queue, self, heap, store, storeKeys, snapshots,
                   scope, track, ids, clock, es, op, cb>>

\* eventStore.js:63 Store.prototype.start; dispatcher.start() seeds the queue
Start(s) ==
    /\ s \in scope.stores
    /\ ~dispatcher[s]
    /\ storage' = [storage EXCEPT ![s] = IF storage[s] = None THEN s ELSE storage[s]]
    /\ dispatcher' = [dispatcher EXCEPT ![s] = TRUE]
    /\ queue' = [queue EXCEPT ![s] = getUndispatchedEvents(storage'[s])]
    /\ last' = NoStep
    /\ UNCHANGED <<self, heap, store, storeKeys, snapshots, scope, track, ids,
                   clock, es, op, cb>>

Free(i) == op[i].pc \in {"idle", "getSnapshot"}

\* eventStore.js:251 Store.prototype.getEventStream
GetEventStream(i, s, streamId, revMin, revMax) ==
    /\ s \in scope.stores
    /\ Free(i)
    /\ op' = [op EXCEPT ![i] = Idle]
    /\ IF hasConfigurationErrors(s)
       THEN /\ cb' = [cb EXCEPT ![i] = <<Result("config", <<>>)>>]
            /\ UNCHANGED <<es, track>>
       ELSE \E outcome \in GetEventsOutcomes :
            IF outcome = "ok"
            THEN /\ es' = [es EXCEPT ![i] =
                        EventStream(s, streamId,
                            getEvents(store[storage[s]][streamId], revMin, revMax))]
                 /\ cb' = [cb EXCEPT ![i] = <<Result("null", <<>>)>>]
                 /\ track' = Loaded(i, "getEventStream", revMin, revMax)
            ELSE /\ cb' = [cb EXCEPT ![i] = <<Result("storage", <<>>)>>]
                 /\ UNCHANGED <<es, track>>
    /\ last' = NoStep
    /\ UNCHANGED <<storage, dispatcher, queue, self, heap, store, storeKeys,
                   snapshots, scope, ids, clock>>

\* eventStore.js:417 EventStream.prototype.addEvent
AddEvent(i, payload) ==
    /\ es[i].loaded
    /\ Len(heap) < scope.events
    /\ heap' = Append(heap, Event(es[i].streamId, payload))
    /\ es' = [es EXCEPT ![i].uncommittedEvents = Append(@, Len(heap) + 1)]
    /\ track' = [track EXCEPT !.given = Append(@, payload)]
    /\ last' = NoStep
    /\ UNCHANGED <<storage, dispatcher, queue, self, store, storeKeys, snapshots,
                   scope, ids, clock, op, cb>>

\* eventStore.js:159-176 Store.prototype.getFromSnapshot up to the answer of
\* Storage.getSnapshot
GetFromSnapshot(i, s, streamId, maxRev) ==
    /\ s \in scope.stores
    /\ Free(i)
    /\ IF hasConfigurationErrors(s)
       THEN /\ cb' = [cb EXCEPT ![i] = <<Result("config", <<>>)>>]
            /\ op' = [op EXCEPT ![i] = Idle]
            /\ last' = NoStep
       ELSE LET snap == getSnapshot(snapshots[storage[s]][streamId], maxRev)
            IN  /\ last' = [act |-> "getFromSnapshot", slot |-> i, maxRev |-> maxRev,
                            snaps |-> snapshots[storage[s]][streamId],
                            calls |-> snap]
                /\ cb' = [cb EXCEPT ![i] = <<>>]
                /\ op' = [op EXCEPT ![i] =
                       [pc       |-> IF snap = <<>> THEN "getSnapshot"
                                     ELSE "getEventStream",
                        store    |-> s,
                        streamId |-> streamId,
                        maxRev   |-> maxRev,
                        snap     |-> snap]]
    /\ UNCHANGED <<storage, dispatcher, queue, self, heap, store, storeKeys,
                   snapshots, scope, track, ids, clock, es>>

\* eventStore.js:178-200: the getEventStream task of getFromSnapshot and the
\* final callback
SnapshotEventStream(i) ==
    /\ op[i].pc = "getEventStream"
    /\ LET snap == op[i].snap[1]
           rev  == IF snap.revision # Undefined THEN snap.revision + 1 ELSE 0
           log  == store[storage[op[i].store]][op[i].streamId]
       IN  \E outcome \in GetEventsOutcomes :
           /\ IF outcome = "ok"
              THEN /\ es' = [es EXCEPT ![i] =
                          EventStream(op[i].store, op[i].streamId,
                                      getEvents(log, rev, op[i].maxRev))]
                   /\ cb' = [cb EXCEPT ![i] = <<Result("null", <<snap>>)>>]
                   /\ track' = Loaded(i, "getFromSnapshot", 0, op[i].maxRev)
              ELSE \* line 186 calls back with the error, line 190 calls back again
                   /\ cb' \in {[cb EXCEPT ![i] = c] :
                          c \in Deliver(<<Result("storage", <<>>)>>,
                                        Result("null", <<snap>>))}
                   /\ UNCHANGED <<es, track>>
           /\ last' = [act |-> "snapshotEventStream", slot |-> i,
                       maxRev |-> op[i].maxRev, log |-> log, outcome |-> outcome]
    /\ op' = [op EXCEPT ![i] = Idle]
    /\ UNCHANGED <<storage, dispatcher, queue, self, heap, store, storeKeys,
                   snapshots, scope, ids, clock>>

\* eventStore.js:212 Store.prototype.createSnapshot: getId and addSnapshot
\* (storage.js:55) touch only the id source and the snapshot list, so the two
\* tasks are taken as one step
CreateSnapshot(s, streamId, revision, data) ==
    /\ s \in scope.stores
    /\ IF hasConfigurationErrors(s)
       THEN /\ last' = NoStep
            /\ UNCHANGED <<ids, snapshots>>
       ELSE /\ ids < scope.ids
            /\ Len(snapshots[storage[s]][streamId]) < MaxSnaps
            /\ ids' = ids + 1
            /\ snapshots' = [snapshots EXCEPT ![storage[s]][streamId] =
                   Append(@, Snapshot(ids + 1, streamId, revision, data))]
            /\ last' = NoStep
    /\ UNCHANGED <<storage, dispatcher, queue, self, heap, store, storeKeys,
                   scope, track, clock, es, op, cb>>

\* eventStore.js:279-289 Store.prototype.commit, called as eventstream.commit
\* (eventStore.js:427), up to the answer of Storage.getId
Commit(i) ==
    /\ es[i].loaded
    /\ op[i].pc = "idle"
    /\ IF hasConfigurationErrors(es[i].store)
       THEN /\ cb' = [cb EXCEPT ![i] = <<Result("config", <<>>)>>]
            /\ UNCHANGED <<self, ids, op>>
       ELSE /\ ids < scope.ids
            /\ self' = es[i].store
            /\ ids' = ids + 1
            /\ op' = [op EXCEPT ![i] =
                   [pc |-> "commitEvents", store |-> es[i].store, id |-> ids + 1,
                    getIdCalls |-> 1]]
            /\ cb' = [cb EXCEPT ![i] = <<>>]
    /\ last' = NoStep
    /\ UNCHANGED <<storage, dispatcher, queue, heap, store, storeKeys, snapshots,
                   scope, track, clock, es>>

\* eventStore.js:291-325: the commitEvents task and the final callback
CommitEvents(i) ==
    /\ op[i].pc = "commitEvents"
    /\ LET batch   == es[i].uncommittedEvents
           st      == storage[self]
           stream  == es[i].streamId
       IN \E stamps \in Readings(Len(batch)), outcome \in AddEventsOutcomes :
          LET sealed == Seal(heap, batch, op[i].id, currentRevision(es[i]), stamps)
              failed == IF outcome = "fail" THEN <<Result("storage", <<>>)>> ELSE <<>>
          IN
          /\ heap' = sealed
          /\ clock' = IF batch = <<>> THEN clock ELSE stamps[Len(batch)]
          /\ IF outcome = "ok"
             THEN /\ store' = [store EXCEPT ![st][stream] = addEvents(@, batch)]
                  /\ storeKeys' = [storeKeys EXCEPT ![st] = KeysAfter(@, stream, batch)]
             ELSE UNCHANGED <<store, storeKeys>>
          /\ op' = [op EXCEPT ![i] =
                 IF outcome = "later"
                 THEN [pc |-> "addEvents", storage |-> st, streamId |-> stream,
                       batch |-> batch]
                 ELSE Idle]
          /\ IF dispatcher[self]
             THEN /\ queue' = [queue EXCEPT ![self] = @ \o batch]
                  /\ es' = [es EXCEPT ![i].events = @ \o batch,
                                      ![i].uncommittedEvents = <<>>]
                  /\ cb' \in {[cb EXCEPT ![i] = c] : c \in Deliver(failed, Result("null", <<>>))}
             ELSE \* self.dispatcher is undefined: TypeError at line 310
                  /\ cb' = [cb EXCEPT ![i] = failed]
                  /\ UNCHANGED <<queue, es>>
          /\ last' = [act |-> "commitEvents", slot |-> i, store |-> op[i].store,
                      used |-> self, storage |-> st, streamId |-> stream,
                      id |-> op[i].id, getIdCalls |-> op[i].getIdCalls,
                      batch |-> batch, events |-> [k \in 1..Len(batch) |-> sealed[batch[k]]],
                      before |-> store[st][stream], heapBefore |-> heap,
                      loaded |-> es[i].events, queueBefore |-> queue,
                      storeBefore |-> store, raced |-> track.raced[i],
                      first |-> ~track.committed[i],
                      full |-> track.fresh[i] \/ track.snap[i],
                      outcome |-> outcome, threw |-> ~dispatcher[self]]
          /\ track' = Committed(i, st, stream, batch)
    /\ UNCHANGED <<storage, dispatcher, self, snapshots, scope, ids>>

\* the plugged-in backend answers an addEvents call after commitEvents returned
\* (eventStore.js:305-307 is its callback)
AddEventsDone(i, outcome) ==
    /\ op[i].pc = "addEvents"
    /\ IF outcome = "ok"
       THEN /\ store' = [store EXCEPT ![op[i].storage][op[i].streamId] =
                    addEvents(@, op[i].batch)]
            /\ storeKeys' = [storeKeys EXCEPT ![op[i].storage] =
                    KeysAfter(@, op[i].streamId, op[i].batch)]
            /\ cb' = cb
       ELSE /\ cb' \in {[cb EXCEPT ![i] = c] :
                          c \in Deliver(cb[i], Result("storage", <<>>))}
            /\ UNCHANGED <<store, storeKeys>>
    /\ op' = [op EXCEPT ![i] = Idle]
    /\ last' = [act |-> "addEventsDone", slot |-> i, outcome |-> outcome,
                batch |-> op[i].batch]
    /\ UNCHANGED <<storage, dispatcher, queue, self, heap, snapshots, scope, track, ids, clock, es>>

\* one publish of the Dispatcher: the Publisher accepts the head of the queue
\* and the event is marked dispatched (storage.js:163)
Dispatch(s) ==
    /\ dispatcher[s]
    /\ queue[s] # <<>>
    /\ heap' = setEventToDispatched(heap, Head(queue[s]))
    /\ queue' = [queue EXCEPT ![s] = Tail(@)]
    /\ last' = NoStep
    /\ UNCHANGED <<storage, dispatcher, self, store, storeKeys, snapshots, scope, track, ids, clock, es, op, cb>>

\* ------------------------------------------- calls in other argument forms
\* eventStore.js:136-148 as called by an operation whose `callback` parameter
\* is bound (given) or not: the invocations of the caller's callback it makes
ConfigurationError(s, given) ==
    IF storage[s] = None /\ given THEN <<Result("config", <<>>)>> ELSE <<>>

\* the program state a call may change, but for the caller's callback
Configuration ==
    <<storage, dispatcher, queue, self, heap, store, storeKeys, snapshots, ids,
      es, op>>

\* history of a call of a Store operation by the caller of slot i
Called(name, i, s) ==
    [act |-> "call", name |-> name, slot |-> i, bound |-> storage[s] # None,
     before |-> IF storage[s] # None THEN <<>> ELSE Configuration]

\* the orders Array.prototype.sort may leave a list in, by commitStamp
\* (storage.js:92-94, 112-114); the order of equal stamps is the engine's
Sorted(list) ==
    {r \in [1..Len(list) -> Range(list)] :
        /\ \A a \in Range(list) :
              Cardinality({k \in 1..Len(list) : r[k] = a}) =
              Cardinality({k \in 1..Len(list) : list[k] = a})
        /\ \A k \in 1..(Len(list) - 1) :
              heap[r[k]].commitStamp <= heap[r[k + 1]].commitStamp}

RECURSIVE AllOf(_, _)
AllOf(st, keys) ==
    IF keys = <<>> THEN <<>>
    ELSE store[st][Head(keys)] \o AllOf(st, Tail(keys))

\* storage.js:86 Storage.prototype.getAllEvents
getAllEvents(st) == Sorted(AllOf(st, storeKeys[st]))

RECURSIVE UpTo(_, _, _, _)
UpTo(st, keys, events, n) ==
    IF keys = <<>> THEN events
    ELSE IF Len(events \o store[st][Head(keys)]) >= n
         THEN events \o store[st][Head(keys)]
         ELSE UpTo(st, Tail(keys), events \o store[st][Head(keys)], n)

\* storage.js:100 Storage.prototype.getEventRange
getEventRange(st, index, amount) ==
    Sorted(Slice(UpTo(st, storeKeys[st], <<>>, index + amount), index, index + amount))

\* eventStore.js:251 getEventStream(streamId, revMin, callback): the callback
\* is the third argument, the parameter `callback` is undefined at line 253
GetEventStreamShort(i, s, streamId, revMin) ==
    /\ s \in scope.stores
    /\ Free(i)
    /\ op' = [op EXCEPT ![i] = Idle]
    /\ IF hasConfigurationErrors(s)
       THEN /\ cb' = [cb EXCEPT ![i] = ConfigurationError(s, FALSE)]
            /\ UNCHANGED <<es, track>>
       ELSE \E outcome \in GetEventsOutcomes :
            IF outcome = "ok"
            THEN /\ es' = [es EXCEPT ![i] =
                        EventStream(s, streamId,
                            getEvents(store[storage[s]][streamId], revMin, -1))]
                 /\ cb' = [cb EXCEPT ![i] = <<Result("null", <<>>)>>]
                 /\ track' = Loaded(i, "getEventStream", revMin, -1)
            ELSE /\ cb' = [cb EXCEPT ![i] = <<Result("storage", <<>>)>>]
                 /\ UNCHANGED <<es, track>>
    /\ last' = Called("getEventStream", i, s)
    /\ UNCHANGED <<storage, dispatcher, queue, self, heap, store, storeKeys,
                   snapshots, scope, ids, clock>>

\* eventStore.js:159 getFromSnapshot(streamId, callback): the callback is the
\* second argument, the parameter `callback` is undefined at line 161
GetFromSnapshotShort(i, s, streamId) ==
    /\ s \in scope.stores
    /\ Free(i)
    /\ IF hasConfigurationErrors(s)
       THEN /\ cb' = [cb EXCEPT ![i] = ConfigurationError(s, FALSE)]
            /\ op' = [op EXCEPT ![i] = Idle]
       ELSE LET snap == getSnapshot(snapshots[storage[s]][streamId], -1)
            IN  /\ cb' = [cb EXCEPT ![i] = <<>>]
                /\ op' = [op EXCEPT ![i] =
                       [pc       |-> IF snap = <<>> THEN "getSnapshot"
                                     ELSE "getEventStream",
                        store    |-> s,
                        streamId |-> streamId,
                        maxRev   |-> -1,
                        snap     |-> snap]]
    /\ last' = Called("getFromSnapshot", i, s)
    /\ UNCHANGED <<storage, dispatcher, queue, self, heap, store, storeKeys,
                   snapshots, scope, track, ids, clock, es>>

\* eventStore.js:212 createSnapshot(streamId, revision, data, callback)
CreateSnapshotCallback(i, s, streamId, revision, data) ==
    /\ s \in scope.stores
    /\ Free(i)
    /\ op' = [op EXCEPT ![i] = Idle]
    /\ IF hasConfigurationErrors(s)
       THEN /\ cb' = [cb EXCEPT ![i] = ConfigurationError(s, TRUE)]
            /\ UNCHANGED <<ids, snapshots>>
       ELSE /\ ids < scope.ids
            /\ Len(snapshots[storage[s]][streamId]) < MaxSnaps
            /\ ids' = ids + 1
            /\ snapshots' = [snapshots EXCEPT ![storage[s]][streamId] =
                   Append(@, Snapshot(ids + 1, streamId, revision, data))]
            /\ cb' = [cb EXCEPT ![i] = <<Result("null", <<>>)>>]
    /\ last' = Called("createSnapshot", i, s)
    /\ UNCHANGED <<storage, dispatcher, queue, self, heap, store, storeKeys,
                   scope, track, clock, es>>

\* eventStore.js:279-289 store.commit(eventstream, callback) on any Store
StoreCommit(i, s) ==
    /\ s \in scope.stores
    /\ es[i].loaded
    /\ op[i].pc = "idle"
    /\ IF hasConfigurationErrors(s)
       THEN /\ cb' = [cb EXCEPT ![i] = ConfigurationError(s, TRUE)]
            /\ UNCHANGED <<self, ids, op>>
       ELSE /\ ids < scope.ids
            /\ self' = s
            /\ ids' = ids + 1
            /\ op' = [op EXCEPT ![i] =
                   [pc |-> "commitEvents", store |-> s, id |-> ids + 1,
                    getIdCalls |-> 1]]
            /\ cb' = [cb EXCEPT ![i] = <<>>]
    /\ last' = Called("commit", i, s)
    /\ UNCHANGED <<storage, dispatcher, queue, heap, store, storeKeys, snapshots,
                   scope, track, clock, es>>

\* eventStore.js:333 Store.prototype.getNewIdFromStorage
GetNewIdFromStorage(i, s) ==
    /\ s \in scope.stores
    /\ Free(i)
    /\ op' = [op EXCEPT ![i] = Idle]
    /\ IF hasConfigurationErrors(s)
       THEN /\ cb' = [cb EXCEPT ![i] = ConfigurationError(s, TRUE)]
            /\ ids' = ids
       ELSE /\ ids < scope.ids
            /\ ids' = ids + 1
            /\ cb' = [cb EXCEPT ![i] = <<Result("null", <<ids + 1>>)>>]
    /\ last' = Called("getNewIdFromStorage", i, s)
    /\ UNCHANGED <<storage, dispatcher, queue, self, heap, store, storeKeys,
                   snapshots, scope, track, clock, es>>

\* eventStore.js:349 Store.prototype.getAllEvents
GetAllEvents(i, s) ==
    /\ s \in scope.stores
    /\ Free(i)
    /\ op' = [op EXCEPT ![i] = Idle]
    /\ IF hasConfigurationErrors(s)
       THEN cb' = [cb EXCEPT ![i] = ConfigurationError(s, TRUE)]
       ELSE \E events \in getAllEvents(storage[s]) :
               cb' = [cb EXCEPT ![i] = <<Result("null", events)>>]
    /\ last' = Called("getAllEvents", i, s)
    /\ UNCHANGED <<storage, dispatcher, queue, self, heap, store, storeKeys,
                   snapshots, scope, track, ids, clock, es>>

\* eventStore.js:369 Store.prototype.getEvents
GetEvents(i, s, index, amount) ==
    /\ s \in scope.stores
    /\ Free(i)
    /\ op' = [op EXCEPT ![i] = Idle]
    /\ IF hasConfigurationErrors(s)
       THEN cb' = [cb EXCEPT ![i] = ConfigurationError(s, TRUE)]
       ELSE \E events \in getEventRange(storage[s], index, amount) :
               cb' = [cb EXCEPT ![i] = <<Result("null", events)>>]
    /\ last' = Called("getEvents", i, s)
    /\ UNCHANGED <<storage, dispatcher, queue, self, heap, store, storeKeys,
                   snapshots, scope, track, ids, clock, es>>

Revs == 0..MaxRev

\* configuration: configure(use(storage)) and start()
Configure ==
    \/ \E s \in Stores, st \in Storages : Use(s, st)
    \/ \E s \in Stores : Start(s)

\* the load-mutate-commit cycle of a caller on an EventStream
Cycle ==
    \/ \E i \in scope.slots, s \in Stores, x \in scope.streams,
          lo \in Revs, hi \in Revs \cup {-1} : GetEventStream(i, s, x, lo, hi)
    \/ \E i \in scope.slots, p \in scope.payloads : AddEvent(i, p)
    \/ \E i \in scope.slots : Commit(i)
    \/ \E i \in scope.slots : CommitEvents(i)

\* snapshots
Snapshots ==
    \/ \E i \in scope.slots, s \in Stores, x \in scope.streams, hi \in Revs \cup {-1} :
          GetFromSnapshot(i, s, x, hi)
    \/ \E i \in scope.slots : SnapshotEventStream(i)
    \/ \E s \in Stores, x \in scope.streams, r \in Revs : CreateSnapshot(s, x, r, 1)

\* The commit protocol on the reference Storage: two EventStreams in use, one
\* commit for each.
Init == InitWith(Scope({1}, {1, 2}, {"A"}, {1}, "inMemory", MaxEvents, MaxIds - 1, 0))

Next ==
    \/ Configure
    \/ Cycle

Spec == Init /\ [][Next]_vars

\* Loading from snapshots on the reference Storage: one EventStream in use.
InitSnapshots == InitWith(Scope({1}, {1}, {"A"}, {1}, "inMemory", MaxEvents, MaxIds, 0))

NextSnapshots ==
    \/ Configure
    \/ Cycle
    \/ Snapshots

SpecSnapshots == InitSnapshots /\ [][NextSnapshots]_vars

\* A plugged-in Storage backend that may fail or answer later.
InitBackend == InitWith(Scope({1}, {1}, {"A"}, {1}, "backend", MaxEvents, MaxIds, 0))

NextBackend ==
    \/ Configure
    \/ Cycle
    \/ \E i \in scope.slots, outcome \in {"ok", "fail"} : AddEventsDone(i, outcome)
    \/ \E s \in Stores : Dispatch(s)

SpecBackend == InitBackend /\ [][NextBackend]_vars

\* the other Store operations and argument forms, called by a caller
Calls ==
    \/ \E i \in scope.slots, s \in Stores, x \in scope.streams, lo \in Revs :
          GetEventStreamShort(i, s, x, lo)
    \/ \E i \in scope.slots, s \in Stores, x \in scope.streams :
          GetFromSnapshotShort(i, s, x)
    \/ \E i \in scope.slots, s \in Stores, x \in scope.streams, r \in Revs :
          CreateSnapshotCallback(i, s, x, r, 1)
    \/ \E i \in scope.slots, s \in Stores : StoreCommit(i, s)
    \/ \E i \in scope.slots, s \in Stores : GetNewIdFromStorage(i, s)
    \/ \E i \in scope.slots, s \in Stores : GetAllEvents(i, s)
    \/ \E i \in scope.slots, s \in Stores, index \in Revs, amount \in Revs :
          GetEvents(i, s, index, amount)

\* Every operation of two Stores, bound to a Storage or not: one caller.
InitConfiguration ==
    InitWith(Scope({1, 2}, {1}, {"A"}, {1}, "inMemory", MaxEvents - 1, MaxIds - 1, 0))

NextConfiguration ==
    \/ Configure
    \/ Cycle
    \/ Snapshots
    \/ Calls

SpecConfiguration == InitConfiguration /\ [][NextConfiguration]_vars

\* Two Stores, each with a caller, and their Dispatchers, whose ticks are
\* scheduled fairly and whose Publisher accepts every event.
InitDispatch ==
    InitWith(Scope({1, 2}, {1, 2}, {"A"}, {1}, "inMemory", MaxEvents - 1, MaxIds - 1, 0))

NextDispatch ==
    \/ Configure
    \/ Cycle
    \/ \E s \in Stores : Dispatch(s)

SpecDispatch ==
    InitDispatch /\ [][NextDispatch]_vars /\ \A s \in Stores : WF_vars(Dispatch(s))

\* Restart: a second Store is created on the Storage of the first and started;
\* one caller commits to two streams.
InitRestart ==
    InitWith(Scope({1, 2}, {1}, {"A", "B"}, {1}, "inMemory", MaxEvents + 1, MaxIds, 0))

\* the cycle of a caller that always loads its stream in full
FullCycle ==
    \/ \E i \in scope.slots, s \in Stores, x \in scope.streams :
          GetEventStream(i, s, x, 0, -1)
    \/ \E i \in scope.slots, p \in scope.payloads : AddEvent(i, p)
    \/ \E i \in scope.slots : Commit(i)
    \/ \E i \in scope.slots : CommitEvents(i)

NextRestart ==
    \/ Configure
    \/ FullCycle
    \/ \E s \in Stores : Dispatch(s)

SpecRestart == InitRestart /\ [][NextRestart]_vars

\* The inputs of a commit: every payload, falsy ones included, and a wall
\* clock that may advance while a batch is sealed.
InitInputs ==
    InitWith(Scope({1}, {1}, {"A"}, Payloads, "inMemory", MaxEvents, MaxIds - 1, 1))

NextInputs ==
    \/ Configure
    \/ Cycle

SpecInputs == InitInputs /\ [][NextInputs]_vars

\* Loading from snapshots on a plugged-in Storage backend that may fail.
InitSnapshotsBackend ==
    InitWith(Scope({1}, {1}, {"A"}, {1}, "backend", MaxEvents - 1, MaxIds - 1, 0))

NextSnapshotsBackend ==
    \/ Configure
    \/ Cycle
    \/ Snapshots
    \/ \E i \in scope.slots, outcome \in {"ok", "fail"} : AddEventsDone(i, outcome)

SpecSnapshotsBackend == InitSnapshotsBackend /\ [][NextSnapshotsBackend]_vars

\* ------------------------------------------------------------- properties
Revision(a) == heap[a].streamRevision

\* position p (from 0) of the log holds the event of revision p
Dense(h, log) == \A p \in 1..Len(log) : h[log[p]].streamRevision = p - 1

Errors(calls) == {k \in 1..Len(calls) : calls[k].err # "null"}
Successes(calls) == {k \in 1..Len(calls) : calls[k].err = "null"}

\* C1: in caller-serialized load -> addEvent -> commit cycles on a stream, whose
\* EventStream comes from getEventStream or from getFromSnapshot, every event
\* a commit persists has a streamRevision greater than that of every event
\* persisted before.  Stated for the first commit on an EventStream loaded up
\* to the end of the stream, by getEventStream(x, 0, -1) or getFromSnapshot(x, -1).
C1_LaterCommitHasGreaterRevisions ==
    (/\ last.act = "commitEvents"
     /\ last.outcome = "ok" /\ ~last.threw
     /\ last.first
     /\ last.full
     /\ Range(last.batch) \cap Range(last.before) = {})
    => \A k \in 1..Len(last.events), a \in Range(last.before) :
          last.events[k].streamRevision > last.heapBefore[a].streamRevision

\* C2: the events a commit hands to Storage.addEvents have, in submission
\* order, commitSequence 0..n-1, and all carry the id that the one
\* Storage.getId call of that commit returned.
C2_CommitSequenceAndId ==
    last.act = "commitEvents"
    => /\ last.getIdCalls = 1
       /\ \A k \in 1..Len(last.events) :
             /\ last.events[k].commitSequence = k - 1
             /\ last.events[k].commitId = last.id

C2_Witness ==
    /\ last.act = "commitEvents" /\ ~last.threw
    /\ Len(last.events) >= 2
    /\ last.outcome = "ok"
    /\ store[last.storage][last.streamId] = last.batch

\* C3: while every commit to a stream comes from an EventStream loaded in full
\* after the previous commit, or from the EventStream that made the previous
\* commit, the event at position i of the stream's log has streamRevision i.
C3_DenseUnderProtocol ==
    \A st \in Storages, x \in Streams :
        <<st, x>> \notin track.off => Dense(heap, store[st][x])

\* C4: when Storage.addEvents fails, the commit callback is invoked with the
\* storage error and is not invoked with a success result.  Stated for a
\* Storage that answers after commitEvents has returned.
C4_FailedCommitReportsOnlyTheError ==
    (last.act = "addEventsDone" /\ last.outcome = "fail" /\ last.batch # <<>>)
    => /\ Successes(cb[last.slot]) = {}
       /\ Errors(cb[last.slot]) # {}

\* C5: when Storage.addEvents fails, the batch is not enqueued on the
\* Dispatcher and the EventStream keeps it in uncommittedEvents, its events
\* unchanged.
C5_AllOrNothing ==
    (last.act = "commitEvents" /\ last.outcome = "fail")
    => /\ queue = last.queueBefore
       /\ es[last.slot].uncommittedEvents = last.batch
       /\ es[last.slot].events = last.loaded

\* C6: every event in a Dispatcher's undispatched queue is in the log of the
\* Storage (addEvents has acknowledged it).
C6_QueuedOnlyAfterAck ==
    \A s \in Stores : \A k \in 1..Len(queue[s]) :
        /\ storage[s] # None
        /\ queue[s][k] \in Range(store[storage[s]][heap[queue[s][k]].streamId])

\* C7: two EventStreams of one stream are loaded before either commits, and
\* both commit events: no commit reports an error (on a started Store each
\* reports success), and after the second commit the log holds two different
\* events of the same streamRevision.
C7_ConflictUndetected ==
    last.act = "commitEvents"
    => /\ Errors(cb[last.slot]) = {}
       /\ ~last.threw => cb[last.slot] = <<Result("null", <<>>)>>
       /\ (last.raced /\ last.first /\ last.batch # <<>>)
          => LET log == store[last.storage][last.streamId]
             IN  \E p, q \in 1..Len(log) :
                    /\ log[p] # log[q]
                    /\ Revision(log[p]) = Revision(log[q])

C7_Witness ==
    /\ last.act = "commitEvents"
    /\ last.raced /\ last.first /\ last.batch # <<>>
    /\ \A i \in Slots : cb[i] = <<Result("null", <<>>)>>

Identity(e) ==
    <<e.streamId, e.streamRevision, e.commitId, e.commitSequence, e.commitStamp>>

AnsweredSnapshot(i) == cb[i][1].snapshot[1]

RECURSIVE Select(_, _, _)
Select(log, low, high) ==
    IF log = <<>> THEN <<>>
    ELSE (IF low < Revision(Head(log)) /\ Revision(Head(log)) <= high
          THEN <<Head(log)>> ELSE <<>>) \o Select(Tail(log), low, high)

\* C9: on a stream with dense revisions, getFromSnapshot(x, maxRev), maxRev >= 0,
\* answers a snapshot and a stream with snapshot.revision below the revision of
\* the stream's first event, the stream holding exactly the events with
\* snapshot.revision < streamRevision <= maxRev (from 0 without a snapshot).
C9_StreamCoversUpToMaxRevInclusive ==
    (/\ last.act = "snapshotEventStream" /\ last.outcome = "ok"
     /\ last.maxRev >= 0
     /\ dispatcher[es[last.slot].store]
     /\ Dense(heap, last.log))
    => LET snap   == AnsweredSnapshot(last.slot)
           stream == es[last.slot].events
           low    == IF snap.revision = Undefined THEN -1 ELSE snap.revision
       IN  /\ (snap.revision # Undefined /\ stream # <<>>)
                 => snap.revision < Revision(stream[1])
           /\ stream = Select(last.log, low, last.maxRev)

Qualifying(snaps, maxRev) ==
    {k \in 1..Len(snaps) : maxRev = -1 \/ snaps[k].revision <= maxRev}

ExpectedSnapshot(snaps, maxRev) ==
    IF Qualifying(snaps, maxRev) = {} THEN EmptyObject
    ELSE snaps[CHOOSE k \in Qualifying(snaps, maxRev) :
                  \A j \in Qualifying(snaps, maxRev) : j <= k]

\* C10: Storage.getSnapshot(x, maxRev) invokes its callback exactly once: with
\* the last snapshot inserted when maxRev = -1, else with the last inserted
\* one of revision <= maxRev, and with the absent marker when none qualifies.
C10_GetSnapshotAnswersOnce ==
    last.act = "getFromSnapshot"
    => last.calls = <<ExpectedSnapshot(last.snaps, last.maxRev)>>

\* C11: getFromSnapshot(x, -1) answers the snapshot created last for the stream
\* (the absent marker when it has none) and, on a stream with dense revisions,
\* a stream holding exactly the events of streamRevision > snapshot.revision
\* in log order (every event without a snapshot).
C11_LatestSnapshotAndLaterEvents ==
    /\ (last.act = "getFromSnapshot" /\ last.maxRev = -1)
          => last.calls = <<IF last.snaps = <<>> THEN EmptyObject
                            ELSE last.snaps[Len(last.snaps)]>>
    /\ (last.act = "snapshotEventStream" /\ last.outcome = "ok"
           /\ last.maxRev = -1 /\ Dense(heap, last.log))
          => LET snap == AnsweredSnapshot(last.slot)
                 low  == IF snap.revision = Undefined THEN -1 ELSE snap.revision
             IN  es[last.slot].events = Select(last.log, low, Len(last.log))

C11_Witness ==
    /\ last.act = "snapshotEventStream" /\ last.maxRev = -1
    /\ Dense(heap, last.log)
    /\ Len(last.log) = 2
    /\ AnsweredSnapshot(last.slot).revision = 0
    /\ es[last.slot].events = <<last.log[2]>>

\* C12: an operation called on a Store without a bound Storage invokes the
\* caller's callback once, with the configuration error, and changes nothing
\* else, in every argument form.
C12_UnboundCallReportsConfigurationError ==
    (last.act = "call" /\ ~last.bound)
    => /\ cb[last.slot] = <<Result("config", <<>>)>>
       /\ Configuration = last.before

\* C13: every event that a commit on a started Store has persisted is
\* eventually dispatched = true, and a dispatched flag never goes back to
\* false (it goes from false to true once).
C13_PersistedEventuallyDispatched ==
    /\ \A a \in 1..MaxEvents :
          (/\ last.act = "commitEvents" /\ last.outcome = "ok"
           /\ dispatcher[last.store]
           /\ a \in Range(last.batch))
          ~> (a \in DOMAIN heap /\ heap[a].dispatched)
    /\ [][\A a \in DOMAIN heap : heap[a].dispatched => heap'[a].dispatched]_vars

\* the events in the lists of a Storage
Persisted(st) == UNION {Range(store[st][x]) : x \in Streams}

\* C14: getUndispatchedEvents answers exactly the persisted events whose
\* dispatched flag is false, each once; so an event that setEventToDispatched
\* has marked is not answered.
C14_UndispatchedExactlyOnce ==
    \A st \in Storages :
        LET answer == getUndispatchedEvents(st)
        IN  /\ Range(answer) = {a \in Persisted(st) : ~heap[a].dispatched}
            /\ \A p, q \in 1..Len(answer) : p # q => answer[p] # answer[q]

\* no Event object is twice in the lists of the Storage
Distinct(st) ==
    /\ \A x \in Streams : \A p, q \in 1..Len(store[st][x]) :
          p # q => store[st][x][p] # store[st][x][q]
    /\ \A x, y \in Streams :
          x # y => Range(store[st][x]) \cap Range(store[st][y]) = {}

\* ids are handed out in the order of the commits of the one caller
InCommitOrder(events) ==
    \A p, q \in 1..Len(events) :
        p < q => \/ heap[events[p]].commitId < heap[events[q]].commitId
                 \/ /\ heap[events[p]].commitId = heap[events[q]].commitId
                    /\ heap[events[p]].commitSequence < heap[events[q]].commitSequence

\* C15: a Store started on the Storage of another started Store, its queue
\* being what recovery seeds it with, the answer of
\* Storage.getUndispatchedEvents, holds the undispatched events in the order
\* of their commits, also when they belong to different streams.
C15_RecoveryInCommitOrder ==
    \A s, t \in Stores :
        (/\ s # t
         /\ dispatcher[s] /\ dispatcher[t]
         /\ storage[s] = storage[t]
         /\ Distinct(storage[s])
         /\ queue[s] = getUndispatchedEvents(storage[s]))
        => InCommitOrder(queue[s])

\* C16: the snapshots of a stream are kept in the order of their insertion
\* (ids are handed out in that order) with non-decreasing revision.
C16_SnapshotRevisionsNonDecreasing ==
    \A st \in Storages, x \in Streams :
        \A p, q \in 1..Len(snapshots[st][x]) :
            p < q => /\ snapshots[st][x][p].id < snapshots[st][x][q].id
                     /\ snapshots[st][x][p].revision <= snapshots[st][x][q].revision

\* C17: an EventStream loaded by getEventStream(x, 0, -1), no commit having
\* followed, holds the events of the log at their positions, each with the
\* payload that addEvent was called with.
C17_PayloadRoundTrip ==
    \A i \in Slots :
        (es[i].loaded /\ track.fresh[i] /\ ~track.committed[i])
        => LET log == store[storage[es[i].store]][es[i].streamId]
           IN  /\ es[i].events = log
               /\ \A p \in 1..Len(log) : heap[log[p]].payload = track.given[log[p]]

\* C18: the events of one commit carry the same commitStamp.
C18_OneCommitStamp ==
    last.act = "commitEvents"
    => \A k, j \in 1..Len(last.events) :
          last.events[k].commitStamp = last.events[j].commitStamp

\* C19: a commit on a Store with a bound Storage, started or not, whose batch
\* Storage.addEvents persisted, has enqueued the batch on the Dispatcher,
\* moved it from uncommittedEvents to events and invoked the callback with
\* the EventStream.
C19_PersistedBatchIsEnqueuedAndMoved ==
    (last.act = "commitEvents" /\ last.outcome = "ok" /\ last.batch # <<>>)
    => /\ queue[last.store] = last.queueBefore[last.store] \o last.batch
       /\ es[last.slot].uncommittedEvents = <<>>
       /\ es[last.slot].events = last.loaded \o last.batch
       /\ cb[last.slot] = <<Result("null", <<>>)>>

\* C20: when Storage.getEvents fails inside getFromSnapshot, the caller's
\* callback is invoked once, with the error, and not with a result.
C20_FailedLoadReportsOnlyTheError ==
    (last.act = "snapshotEventStream" /\ last.outcome = "fail")
    => cb[last.slot] = <<Result("storage", <<>>)>>

\* C21: a commit whose batch was persisted, on a started Store and with no
\* TypeError raised, has appended the batch to the stream's log in the Storage
\* of the Store on which commit was invoked, and to the queue of that Store's
\* Dispatcher, also when a commit on another Store started between its
\* getId request and its commitEvents step.
C21_CommitUsesItsOwnStore ==
    (/\ last.act = "commitEvents" /\ last.outcome = "ok" /\ last.batch # <<>>
     /\ dispatcher[last.store] /\ ~last.threw)
    => LET st == storage[last.store]
       IN  /\ last.storage = st
           /\ store[st][last.streamId] =
                  addEvents(last.storeBefore[st][last.streamId], last.batch)
           /\ queue[last.store] = last.queueBefore[last.store] \o last.batch

====
